---- MODULE Spec2Model ----
(***************************************************************************)
(* Model of the date-fruit vision pipeline of csqa-cnn:                    *)
(*   - FruitPredictor (src/src/inference/predictor.py): lazy model load    *)
(*     with a rebuild-architecture fallback, and predict;                  *)
(*   - the FastAPI service (src/src/api.py): model load at import time and *)
(*     the upload_and_predict handler over detect_and_crop                 *)
(*     (src/src/preprocessing/detection.py).                               *)
(***************************************************************************)
EXTENDS Integers, Sequences, FiniteSets, TLC

(***************************************************************************)
(* Bounds of the model.                                                    *)
(***************************************************************************)
NumCallers == 2
MaxCalls == 3
NumFeats == 2
MaxRequests == 2

Callers == 1..NumCallers
Feats == 1..NumFeats

(***************************************************************************)
(* Python exceptions that the two loaders name, and the subclass relation  *)
(* that `except` uses (FileNotFoundError is a subclass of OSError).        *)
(***************************************************************************)
ExcKinds ==
  {"FileNotFoundError", "OSError", "ValueError", "AttributeError", "ImportError", "TypeError"}

IsInstance(e, cls) ==
  \/ e = cls
  \/ (e = "FileNotFoundError" /\ cls = "OSError")

Caught(e, classes) == \E cls \in classes : IsInstance(e, cls)

\* predictor.py:80  except (OSError, AttributeError, ImportError)
PredictorCaught == {"OSError", "AttributeError", "ImportError"}

\* api.py:54  except (FileNotFoundError, OSError, ValueError)
ApiCaught == {"FileNotFoundError", "OSError", "ValueError"}

(***************************************************************************)
(* The model artifact on disk.  It does not change during a run.           *)
(*   exists  : os.path.exists(model_path)                                  *)
(*   primary : what keras.models.load_model(model_path) does: "ok" or the  *)
(*             exception it raises                                         *)
(*   weights : whether load_weights(model_path) can read the tensors       *)
(***************************************************************************)
Artifacts ==
  { a \in [exists : BOOLEAN, primary : {"ok"} \cup ExcKinds, weights : {"intact", "corrupt"}] :
      /\ (~a.exists => a.primary # "ok" /\ a.weights = "corrupt")
      /\ (a.exists => a.primary # "FileNotFoundError")
      /\ (a.primary = "ok" => a.weights = "intact") }

(***************************************************************************)
(* Keras models, as far as the program can tell them apart: the layer      *)
(* stack, where the weights come from, and which path made the object.     *)
(***************************************************************************)
None == [kind |-> "None", arch |-> << >>, weights |-> "none", path |-> "none"]

\* compile.py:28-32, the architecture stored in the artifact
TrainedArchitecture == <<"MobileNetV2_frozen", "GlobalAveragePooling2D", "Dense_2_softmax">>

\* predictor.py:49-59
BuiltArchitecture == <<"MobileNetV2_frozen", "GlobalAveragePooling2D", "Dense_2_softmax">>

\* keras.models.load_model(path) when it succeeds
KerasLoadModel(a) ==
  [kind |-> "Model", arch |-> TrainedArchitecture, weights |-> "artifact", path |-> "primary"]

\* self._build_architecture(): ImageNet backbone, freshly initialised head
_build_architecture ==
  [kind |-> "Model", arch |-> BuiltArchitecture, weights |-> "initial", path |-> "fallback"]

load_weights_noop(m, a) == m

\* model.load_weights(path): the artifact's tensors replace the model's
load_weights(m, a) == [m EXCEPT !.weights = "artifact"]

IsKerasModel(m) == m.kind = "Model"

PathExistsAlways(a) == TRUE

\* os.path.exists(self.model_path)
PathExists(a) == a.exists

\* The spec's load state of a model handle.  "Partial" is a model whose
\* architecture was rebuilt but whose artifact weights were never loaded.
LoadState(m) ==
  IF ~IsKerasModel(m) THEN "Unloaded"
  ELSE IF m.path = "primary" THEN "Loaded"
  ELSE IF m.weights = "artifact" THEN "FallbackLoaded"
  ELSE "Partial"

(***************************************************************************)
(* Inference.  A tensor is [feat, scale, rank, size, maxval]: feat names    *)
(* the pixel content, size is its height and width, maxval its largest     *)
(* pixel value in 1/1000, and scale is "unit" when no value exceeds 1.0    *)
(* and "raw" otherwise.                                                    *)
(* The network's output is a pair of probabilities in 1/1000, a function   *)
(* of the layer stack, the weights and the tensor.                         *)
(***************************************************************************)
ProbTable == << <<900, 100>>, <<300, 700>>, <<500, 500>>, <<20, 980>>, <<640, 360>> >>

WeightsOffset(w) == IF w = "artifact" THEN 0 ELSE 2

ScaleOffset(s) == IF s = "unit" THEN 0 ELSE 1

\* model.predict(tensor)[0]
Forward(m, t) ==
  IF m.arch = TrainedArchitecture
  THEN ProbTable[((t.feat + WeightsOffset(m.weights) + ScaleOffset(t.scale)) % Len(ProbTable)) + 1]
  ELSE <<0, 0>>

\* np.argmax over two entries: the first maximum, 0-based
ArgMax(p) == IF p[1] >= p[2] THEN 0 ELSE 1

Max2(p) == IF p[1] >= p[2] THEN p[1] ELSE p[2]

\* Confidences are kept in units of 0.1 % (100 * probability, with
\* probabilities in 1/1000).

\* predictor.py:20
PredictorClasses == <<"Fresh", "Rotten">>

MaxRank == 5

\* predictor.py:21  IMAGE_SIZE, and the input_shape of the network
\* (predictor.py:50, compile.py:8)
IMAGE_SIZE == 224

\* heights (= widths) of the images given
Sizes == {100, IMAGE_SIZE}

\* largest pixel values, in 1/1000: of 8-bit images (0, 1, 128, 255) and of
\* arrays of floats (0.5, 1.0)
Maxima8Bit == {0, 1000, 128000, 255000}

PixelMaxima == Maxima8Bit \cup {500}

\* np.max(img_array) > 1.0
ScaleOf(maxval) == IF maxval > 1000 THEN "raw" ELSE "unit"

\* Inputs of FruitPredictor.predict: a file path or an array of some rank.
PredictInputs ==
  { [form |-> "path", rank |-> 3, size |-> z, maxval |-> v, scale |-> ScaleOf(v), feat |-> f] :
      z \in Sizes, v \in Maxima8Bit, f \in Feats }
  \cup
  { [form |-> "array", rank |-> r, size |-> z, maxval |-> v, scale |-> ScaleOf(v), feat |-> f] :
      r \in 1..MaxRank, z \in Sizes, v \in PixelMaxima, f \in Feats }

\* predictor.py:122-123: divide by 255 when the maximum exceeds 1.0
Normalize(x) ==
  IF x.maxval > 1000
  THEN [x EXCEPT !.maxval = x.maxval \div 255, !.scale = ScaleOf(x.maxval \div 255)]
  ELSE x

PreprocessInputAnyRank(x) ==
  Normalize([x EXCEPT !.form = "tensor", !.rank = 4,
                      !.size = IF x.form = "path" THEN IMAGE_SIZE ELSE x.size])

\* predictor.py:111-125: the tensor handed to the network, or the ValueError
\* of line 121 for an array that has neither 3 nor 4 axes.  A file is loaded
\* at IMAGE_SIZE (line 113); an array keeps its height and width
PreprocessInput(x) ==
  IF x.form # "path" /\ x.rank \notin {3, 4}
  THEN [x EXCEPT !.form = "ValueError"]
  ELSE Normalize([x EXCEPT !.form = "tensor", !.rank = 4,
                           !.size = IF x.form = "path" THEN IMAGE_SIZE ELSE x.size])

NoTensor == [form |-> "none", rank |-> 0, size |-> 0, maxval |-> 0, scale |-> "unit", feat |-> 0]

\* predictor.py:131-132: argmax and max are taken of predictions[0] itself
PredictorScore(predictions) == predictions

\* predictor.py:110-139 with self.model = m: the preprocessing, the call of
\* m.predict (handed says whether it is reached, and tensor with what), which
\* raises ValueError for a tensor that has not the height and width of the
\* network's input, and the label and confidence taken from its output
PredictOutcome(m, image_input) ==
  LET img_array == PreprocessInput(image_input)
      predictions == Forward(m, img_array)
  IN IF img_array.form = "ValueError"
     THEN [status |-> "raised", exc |-> "ValueError", handed |-> FALSE, tensor |-> NoTensor,
           predictions |-> <<0, 0>>, label |-> "none", confidence |-> 0]
     ELSE IF img_array.size # IMAGE_SIZE
     THEN [status |-> "raised", exc |-> "ValueError", handed |-> TRUE, tensor |-> img_array,
           predictions |-> <<0, 0>>, label |-> "none", confidence |-> 0]
     ELSE [status |-> "ok", exc |-> "none", handed |-> TRUE, tensor |-> img_array,
           predictions |-> predictions,
           label |-> PredictorClasses[ArgMax(PredictorScore(predictions)) + 1],
           confidence |-> Max2(PredictorScore(predictions))]

NoResult ==
  [status |-> "none", call |-> "none", exc |-> "none", label |-> "none",
   confidence |-> 0, model |-> None, steps |-> << >>]

VARIABLES
  artifact,    \* the artifact at model_path
  model,       \* FruitPredictor.model
  pc,          \* per caller: where it is inside predict / load_model
  call,        \* per caller: which public method it called
  steps,       \* per caller: fallback steps its current load_model has done
  result,      \* outcome of the call that finished last
  calls,       \* number of calls started
  succLoads,   \* number of load_model invocations that returned normally
  lastLoad,    \* the last load_model that returned normally: model left, steps done
  directLoad,  \* whether load_model was ever called directly
  settled,     \* load state when last no call was in progress
  probe,       \* the input whose classifications are compared
  probed       \* the results predict has returned for it

probeVars == <<probe, probed>>

predVars ==
  <<artifact, model, pc, call, steps, result, calls, succLoads, lastLoad, directLoad,
    settled, probeVars>>

VARIABLES
  env,         \* the process environment: which required variables are set
  apiPc,       \* "import" while api.py is being imported, then how that ended
  apiModel,    \* the module-level model of api.py
  upload,      \* per request: the upload being read, while the handler awaits it
  response,    \* per request: the response returned
  bgTasks,     \* background tasks added and not yet run
  logs         \* rows of the logs table

apiVars == <<env, apiPc, apiModel, upload, response, bgTasks, logs>>

VARIABLES
  frame,       \* the input given to the detection stage
  detection,   \* what the detection stage made of it
  masking      \* the call of _create_foreground_mask on a row: its image, its
               \* mask so far, the steps it has done and what it returned

detVars == <<frame, detection, masking>>

VARIABLES
  sample,      \* the model and the input given to a classifier
  verdict      \* what the classifier made of them

clsVars == <<sample, verdict>>

VARIABLES
  image_list,  \* the argument of simulate_camera
  camPc,       \* where simulate_camera is
  camIdx,      \* the position in image_list of the image being handled
  posted,      \* the images given to requests.post, in the order of the calls
  handled      \* the images whose handling has ended, with how it ended

camVars == <<image_list, camPc, camIdx, posted, handled>>

vars == <<predVars, apiVars, detVars, clsVars, camVars>>


InitPredictor ==
  /\ artifact \in Artifacts
  /\ model = None                                   \* predictor.py:34
  /\ pc = [t \in Callers |-> "idle"]
  /\ call = [t \in Callers |-> "none"]
  /\ steps = [t \in Callers |-> << >>]
  /\ result = NoResult
  /\ calls = 0
  /\ succLoads = 0
  /\ lastLoad = [model |-> None, steps |-> << >>]
  /\ directLoad = FALSE
  /\ settled = "Unloaded"

OthersIdle(t) == \A u \in Callers \ {t} : pc[u] = "idle"

\* Caller t moves on inside its call.
Goto(t, to, st) ==
  /\ pc' = [pc EXCEPT ![t] = to]
  /\ steps' = [steps EXCEPT ![t] = st]
  /\ UNCHANGED <<call, result, settled>>

\* The call of caller t ends (normally or by an exception) with outcome r,
\* leaving m in self.model.
Finish(t, r, m) ==
  /\ pc' = [pc EXCEPT ![t] = "idle"]
  /\ call' = [call EXCEPT ![t] = "none"]
  /\ steps' = [steps EXCEPT ![t] = << >>]
  /\ result' = r
  /\ settled' = IF OthersIdle(t) THEN LoadState(m) ELSE settled

Raised(t, e) ==
  [NoResult EXCEPT !.status = "raised", !.call = call[t], !.exc = e, !.steps = steps[t]]

\* a caller enters predict(image_input)
CallPredict(t) ==
  /\ pc[t] = "idle"
  /\ calls < MaxCalls
  /\ pc' = [pc EXCEPT ![t] = "check"]
  /\ call' = [call EXCEPT ![t] = "predict"]
  /\ calls' = calls + 1
  /\ UNCHANGED <<apiVars, detVars, clsVars, camVars, probeVars, artifact, model, steps, result, succLoads, lastLoad, directLoad, settled>>

\* a caller enters load_model() directly
CallLoadModel(t) ==
  /\ pc[t] = "idle"
  /\ calls < MaxCalls
  /\ pc' = [pc EXCEPT ![t] = "exists"]
  /\ call' = [call EXCEPT ![t] = "load_model"]
  /\ calls' = calls + 1
  /\ directLoad' = TRUE
  /\ UNCHANGED <<apiVars, detVars, clsVars, camVars, probeVars, artifact, model, steps, result, succLoads, lastLoad, settled>>

\* predictor.py:105  if not isinstance(self.model, keras.Model)
CheckModel(t) ==
  /\ pc[t] = "check"
  /\ Goto(t, IF IsKerasModel(model) THEN "infer" ELSE "exists", steps[t])
  /\ UNCHANGED <<apiVars, detVars, clsVars, camVars, probeVars, artifact, model, calls, succLoads, lastLoad, directLoad>>

\* predictor.py:74-75
ExistsCheck(t) ==
  /\ pc[t] = "exists"
  /\ IF PathExists(artifact)
     THEN Goto(t, "primary", steps[t])
     ELSE Finish(t, Raised(t, "FileNotFoundError"), model)
  /\ UNCHANGED <<apiVars, detVars, clsVars, camVars, probeVars, artifact, model, calls, succLoads, lastLoad, directLoad>>

\* load_model returns normally, having done the steps st and left m in
\* self.model: to predict (line 107) or to the direct caller
LoadReturns(t, m, st) ==
  /\ succLoads' = succLoads + 1
  /\ lastLoad' = [model |-> m, steps |-> st]
  /\ IF call[t] = "load_model"
     THEN Finish(t, [NoResult EXCEPT !.status = "ok", !.call = "load_model",
                                     !.model = m, !.steps = st], m)
     ELSE Goto(t, "recheck", st)

\* predictor.py:77-82
PrimaryLoad(t) ==
  /\ pc[t] = "primary"
  /\ IF artifact.primary = "ok"
     THEN /\ model' = KerasLoadModel(artifact)
          /\ LoadReturns(t, model', steps[t])
     ELSE IF Caught(artifact.primary, PredictorCaught)
     THEN /\ Goto(t, "build", steps[t])
          /\ UNCHANGED <<model, succLoads, lastLoad>>
     ELSE /\ Finish(t, Raised(t, artifact.primary), model)
          /\ UNCHANGED <<model, succLoads, lastLoad>>
  /\ UNCHANGED <<apiVars, detVars, clsVars, camVars, probeVars, artifact, calls, directLoad>>

\* predictor.py:84  self.model = self._build_architecture()
Build(t) ==
  /\ pc[t] = "build"
  /\ model' = _build_architecture
  /\ Goto(t, "dummy", Append(steps[t], "build"))
  /\ UNCHANGED <<apiVars, detVars, clsVars, camVars, probeVars, artifact, calls, succLoads, lastLoad, directLoad>>

\* predictor.py:85  self.model.predict(np.zeros((1, 224, 224, 3)))
DummyPass(t) ==
  /\ pc[t] = "dummy"
  /\ IsKerasModel(model)
  /\ Goto(t, "weights", Append(steps[t], "dummy"))
  /\ UNCHANGED <<apiVars, detVars, clsVars, camVars, probeVars, artifact, model, calls, succLoads, lastLoad, directLoad>>

\* predictor.py:86  self.model.load_weights(self.model_path)
LoadWeights(t) ==
  /\ pc[t] = "weights"
  /\ IF artifact.weights = "intact"
     THEN /\ model' = load_weights(model, artifact)
          /\ LoadReturns(t, model', Append(steps[t], "weights"))
     ELSE /\ Finish(t, Raised(t, "ValueError"), model)    \* whatever load_weights raises
          /\ UNCHANGED <<model, succLoads, lastLoad>>
  /\ UNCHANGED <<apiVars, detVars, clsVars, camVars, probeVars, artifact, calls, directLoad>>

\* predictor.py:107-108
Recheck(t) ==
  /\ pc[t] = "recheck"
  /\ IF IsKerasModel(model)
     THEN Goto(t, "infer", steps[t])
     ELSE Finish(t, Raised(t, "RuntimeError"), model)
  /\ UNCHANGED <<apiVars, detVars, clsVars, camVars, probeVars, artifact, model, calls, succLoads, lastLoad, directLoad>>

\* a predict that, after a lazy load, classifies the all-zero array of the
\* load's dummy pass (predictor.py:85) in place of its input
InferAfterDummy(t) ==
  /\ pc[t] = "infer"
  /\ \E call_ \in {[out |-> PredictOutcome(model, IF steps[t] = << >> THEN x
                                               ELSE [x EXCEPT !.maxval = 0, !.scale = "unit", !.feat = 0]),
                      probe |-> x = probe] : x \in PredictInputs} :
       LET out == call_.out
       IN IF out.status = "raised"
          THEN Finish(t, Raised(t, out.exc), model) /\ UNCHANGED probed
          ELSE /\ Finish(t, [NoResult EXCEPT !.status = "ok", !.call = "predict",
                                             !.label = out.label,
                                             !.confidence = out.confidence,
                                             !.model = model, !.steps = steps[t]], model)
               /\ probed' = IF call_.probe
                            THEN probed \cup {[label |-> out.label, confidence |-> out.confidence,
                                               model |-> model, steps |-> steps[t]]}
                            ELSE probed
  /\ UNCHANGED <<apiVars, detVars, clsVars, camVars, probe, artifact, model, calls, succLoads, lastLoad, directLoad>>

\* predictor.py:110-139: preprocessing (local to the caller), then inference
\* with whatever self.model holds at that moment, for any image_input x;
\* inputs that give the same outcome give the same step
Infer(t) ==
  /\ pc[t] = "infer"
  /\ \E call_ \in {[out |-> PredictOutcome(model, x), probe |-> x = probe] : x \in PredictInputs} :
       LET out == call_.out
       IN IF out.status = "raised"
          THEN Finish(t, Raised(t, out.exc), model) /\ UNCHANGED probed
          ELSE /\ Finish(t, [NoResult EXCEPT !.status = "ok", !.call = "predict",
                                             !.label = out.label,
                                             !.confidence = out.confidence,
                                             !.model = model, !.steps = steps[t]], model)
               /\ probed' = IF call_.probe
                            THEN probed \cup {[label |-> out.label, confidence |-> out.confidence,
                                               model |-> model, steps |-> steps[t]]}
                            ELSE probed
  /\ UNCHANGED <<apiVars, detVars, clsVars, camVars, probe, artifact, model, calls, succLoads, lastLoad, directLoad>>

Step(t) ==
  \/ CallPredict(t)
  \/ CallLoadModel(t)
  \/ CheckModel(t)
  \/ ExistsCheck(t)
  \/ PrimaryLoad(t)
  \/ Build(t)
  \/ DummyPass(t)
  \/ LoadWeights(t)
  \/ Recheck(t)
  \/ Infer(t)

(***************************************************************************)
(* detect_and_crop (src/src/preprocessing/detection.py).  An upload is     *)
(* described by what decoding and segmentation find in it: whether it      *)
(* decodes, its size, and its external contours in traversal order, each   *)
(* with its area, bounding box, and the content and channel-0 mean of its  *)
(* padded crop.                                                            *)
(***************************************************************************)
MIN_OBJECT_AREA == 3000
ZOOMED_IN_THRESHOLD_PCT == 50
CROP_PADDING == 10
DARK_CROP_THRESHOLD == 20

Min(a, b) == IF a <= b THEN a ELSE b
Max(a, b) == IF a >= b THEN a ELSE b

Contour(area, x, y, w, h, mean, feat) ==
  [area |-> area, x |-> x, y |-> y, w |-> w, h |-> h, mean |-> mean, feat |-> feat]

\* an upload that holds at least one byte: valid says whether the bytes are an
\* encoded image
Image(valid, h, w, contours) ==
  [empty |-> FALSE, valid |-> valid, h |-> h, w |-> w, contours |-> contours]

\* the upload of zero bytes
EmptyBuffer == [empty |-> TRUE, valid |-> FALSE, h |-> 0, w |-> 0, contours |-> << >>]

Uploads ==
  LET big   == Contour(24000, 20, 20, 160, 160, 120, 1)
      a     == Contour(3300, 5, 5, 60, 60, 90, 1)
      b     == Contour(3500, 100, 100, 70, 60, 140, 2)
      small == Contour(300, 180, 10, 15, 20, 80, 2)
      dark  == Contour(3400, 10, 120, 60, 60, 10, 1)
  IN { EmptyBuffer,
       Image(FALSE, 0, 0, << >>),
       Image(TRUE, 200, 200, << >>),
       Image(TRUE, 200, 200, <<big>>),
       Image(TRUE, 200, 200, <<small, big>>),
       Image(TRUE, 200, 200, <<a, b>>),
       Image(TRUE, 200, 200, <<b, a>>),
       Image(TRUE, 200, 200, <<a, small, dark, b>>),
       Image(TRUE, 200, 200, <<small, dark>>) }

\* detection.py:64-66: cv2.imdecode gives an image, gives None for bytes that
\* are no encoded image, and raises cv2.error for a buffer of no bytes (its
\* CV_Assert(!buf.empty())); nothing in _decode_image checks for or catches it
_decode_image(image) ==
  IF image.empty THEN "cv2.error"
  ELSE IF image.valid THEN "image"
  ELSE "None"

_padded_crop_unclipped(image, c) ==
  [y1 |-> c.y - CROP_PADDING,
   y2 |-> c.y + c.h + CROP_PADDING,
   x1 |-> c.x - CROP_PADDING,
   x2 |-> c.x + c.w + CROP_PADDING,
   mean |-> c.mean,
   feat |-> c.feat]

_padded_crop_inward(image, c) ==
  [y1 |-> Max(0, c.y + CROP_PADDING),
   y2 |-> Min(image.h, c.y + c.h - CROP_PADDING),
   x1 |-> Max(0, c.x + CROP_PADDING),
   x2 |-> Min(image.w, c.x + c.w - CROP_PADDING),
   mean |-> c.mean,
   feat |-> c.feat]

\* detection.py:56-62
_padded_crop(image, c) ==
  [y1 |-> Max(0, c.y - CROP_PADDING),
   y2 |-> Min(image.h, c.y + c.h + CROP_PADDING),
   x1 |-> Max(0, c.x - CROP_PADDING),
   x2 |-> Min(image.w, c.x + c.w + CROP_PADDING),
   mean |-> c.mean,
   feat |-> c.feat]

\* detection.py:68-70
_is_too_dark(crop) == crop.mean < DARK_CROP_THRESHOLD

\* detection.py:86  max(contours, key=cv2.contourArea): the first contour of
\* the largest area
RECURSIVE LargestFrom(_, _, _)
LargestFrom(contours, i, best) ==
  IF i > Len(contours) THEN best
  ELSE LargestFrom(contours, i + 1,
                   IF contours[i].area > best.area THEN contours[i] ELSE best)

LargestIsFirst(contours) == contours[1]

Largest(contours) == LargestFrom(contours, 2, contours[1])

RECURSIVE CropsFromInclusive(_, _)
CropsFromInclusive(image, i) ==
  IF i > Len(image.contours) THEN << >>
  ELSE LET c == image.contours[i]
           crop == _padded_crop(image, c)
           rest == CropsFromInclusive(image, i + 1)
       IN IF c.w * c.h <= MIN_OBJECT_AREA THEN rest
          ELSE IF _is_too_dark(crop) THEN rest
          ELSE <<crop>> \o rest

\* a loop that puts each crop in front of those already collected
RECURSIVE CropsFromNewestFirst(_, _)
CropsFromNewestFirst(image, i) ==
  IF i > Len(image.contours) THEN << >>
  ELSE LET c == image.contours[i]
           crop == _padded_crop(image, c)
           rest == CropsFromNewestFirst(image, i + 1)
       IN IF c.w * c.h < MIN_OBJECT_AREA THEN rest
          ELSE IF _is_too_dark(crop) THEN rest
          ELSE rest \o <<crop>>

\* detection.py:98-111, the loop over the contours from index i on
RECURSIVE CropsFrom(_, _)
CropsFrom(image, i) ==
  IF i > Len(image.contours) THEN << >>
  ELSE LET c == image.contours[i]
           crop == _padded_crop(image, c)
           rest == CropsFrom(image, i + 1)
       IN IF c.w * c.h < MIN_OBJECT_AREA THEN rest
          ELSE IF _is_too_dark(crop) THEN rest
          ELSE <<crop>> \o rest

\* detection.py:74: the exception of _decode_image leaves detect_and_crop
detect_and_crop_raises(image) == _decode_image(image) = "cv2.error"

ZoomedInInclusive(image, largest) ==
  100 * largest.area >= ZOOMED_IN_THRESHOLD_PCT * (image.h * image.w)

\* detection.py:87-90: coverage = contourArea(largest) / (height * width) and
\* the test coverage > ZOOMED_IN_THRESHOLD, in hundredths
ZoomedIn(image, largest) ==
  100 * largest.area > ZOOMED_IN_THRESHOLD_PCT * (image.h * image.w)

\* detection.py:72-114, when it returns
detect_and_crop(image) ==
  IF _decode_image(image) # "image" THEN << >>
  ELSE IF image.contours = << >> THEN << >>
  ELSE LET largest == Largest(image.contours)
       IN IF ZoomedIn(image, largest)
          THEN <<_padded_crop(image, largest)>>
          ELSE CropsFrom(image, 1)

\* detection.py:83-97: the branch detect_and_crop takes for a decoded image
SceneType(image) ==
  IF image.contours = << >> THEN "Empty"
  ELSE IF ZoomedIn(image, Largest(image.contours)) THEN "SingleObject"
  ELSE "MultiObject"

(***************************************************************************)
(* _create_foreground_mask (detection.py:30-54) and cv2.findContours       *)
(* (detection.py:81) for a frame whose pixels all have one colour.         *)
(***************************************************************************)
Colour(b, g, r) == [b |-> b, g |-> g, r |-> r]

\* detection.py:33-34: channel 1 of cv2.cvtColor(image, COLOR_BGR2HSV) for
\* 8-bit pixels, S = 255 * (V - min) / V with V = max(B, G, R), S = 0 for V = 0
Saturation(colour) ==
  LET v == Max(colour.b, Max(colour.g, colour.r))
      m == Min(colour.b, Min(colour.g, colour.r))
  IN IF v = 0 THEN 0 ELSE (2 * 255 * (v - m) + v) \div (2 * v)

Levels == 0..255

\* detection.py:37: a Gaussian blur replaces each pixel by a weighted mean,
\* with weights of sum 1, of pixels that here all have the value s
GaussianBlur(s) == s

\* the histogram of a channel of n pixels, all of value s
Histogram(s, n) == [i \in Levels |-> IF i = s THEN n ELSE 0]

\* the levels that hold at least one pixel
Occupied(hist) == {v \in Levels : hist[v] > 0}

\* number of pixels (weighted FALSE) or sum of the pixel values (weighted TRUE)
\* over a set of levels
RECURSIVE SumLevels(_, _, _)
SumLevels(hist, levels, weighted) ==
  IF levels = {} THEN 0
  ELSE LET v == CHOOSE x \in levels : TRUE
       IN (IF weighted THEN v * hist[v] ELSE hist[v]) + SumLevels(hist, levels \ {v}, weighted)

\* detection.py:40-42, cv2.THRESH_OTSU: the lowest level that maximises the
\* between-class variance q1*q2*(mu1 - mu2)^2 of the pixels up to it and the
\* pixels above it, here as the fraction num/den; a level that leaves one
\* class empty is skipped, and the result is 0 when every level is skipped.
\* A level that holds no pixel splits the pixels as the occupied level below
\* it does, so the lowest maximum is at an occupied level.
OtsuAmong(hist, occupied) ==
  LET n1 == [i \in occupied |-> SumLevels(hist, {v \in occupied : v <= i}, FALSE)]
      n2 == [i \in occupied |-> SumLevels(hist, {v \in occupied : v > i}, FALSE)]
      d == [i \in occupied |-> SumLevels(hist, {v \in occupied : v <= i}, TRUE) * n2[i]
                                 - SumLevels(hist, {v \in occupied : v > i}, TRUE) * n1[i]]
      num == [i \in occupied |-> d[i] * d[i]]
      den == [i \in occupied |-> n1[i] * n2[i]]
      split == {i \in occupied : n1[i] > 0 /\ n2[i] > 0}
  IN IF split = {} THEN 0
     ELSE CHOOSE i \in split :
            \A j \in split : /\ num[i] * den[j] >= num[j] * den[i]
                             /\ j < i => num[i] * den[j] > num[j] * den[i]

Otsu(hist) == CHOOSE t \in {OtsuAmong(hist, occupied) : occupied \in {Occupied(hist)}} : TRUE

\* detection.py:40-42, cv2.THRESH_BINARY: 255 where the pixel exceeds the
\* threshold, 0 elsewhere
ThresholdBinary(v, thresh) == IF v > thresh THEN 255 ELSE 0

\* detection.py:48, 51: dilation takes the maximum and erosion the minimum
\* over the 7x7 neighbourhood of a pixel, pixels outside the image left out;
\* in a mask whose pixels all have the value v that neighbourhood holds v alone
Dilate(v) == CHOOSE x \in {v} : \A y \in {v} : x >= y

Erode(v) == CHOOSE x \in {v} : \A y \in {v} : x <= y

\* detection.py:48  MORPH_CLOSE, iterations=2: two dilations, then two erosions
MorphClose2(v) == Erode(Erode(Dilate(Dilate(v))))

\* detection.py:51  MORPH_OPEN, iterations=1: an erosion, then a dilation
MorphOpen1(v) == Dilate(Erode(v))

\* detection.py:30-54: the value of every pixel of the mask of a frame of
\* h x w pixels of one colour
_create_foreground_mask(h, w, colour) ==
  LET blurred == GaussianBlur(Saturation(colour))
      thresh == Otsu(Histogram(blurred, h * w))
  IN MorphOpen1(MorphClose2(ThresholdBinary(blurred, thresh)))

\* detection.py:81: cv2.findContours(mask, RETR_EXTERNAL, CHAIN_APPROX_SIMPLE)
\* of a mask of one value: nothing for 0; for 255 the one contour through
\* the corner pixels, of area (w-1)*(h-1) and bounding box the whole frame
findContours(mask, h, w, colour) ==
  IF mask = 0 THEN << >>
  ELSE <<[area |-> (w - 1) * (h - 1), x |-> 0, y |-> 0, w |-> w, h |-> h,
          mean |-> colour.b, g |-> colour.g, r |-> colour.r, feat |-> 1]>>

(***************************************************************************)
(* _create_foreground_mask (detection.py:30-54) for a frame of one row of  *)
(* pixels, step by step.                                                   *)
(***************************************************************************)
RowLen == 7

\* the grey of the belt and the brown of a date
RowColours == {Colour(128, 128, 128), Colour(10, 60, 110)}

Rows == [1..RowLen -> RowColours]

\* detection.py:34: the saturation channel of a row
SaturationRow(pixels) == [i \in DOMAIN pixels |-> Saturation(pixels[i])]

\* cv2.BORDER_REFLECT_101, the default border: position k of a row of n >= 3
\* pixels, mirrored about the first and the last pixel
Reflect101(k, n) == IF k < 1 THEN 2 - k ELSE IF k > n THEN 2 * n - k ELSE k

\* detection.py:37: the 5x5 kernel for sigma 0 has the weights 1 4 6 4 1 over
\* 16 in each direction; the rows above and below a one-row image mirror the
\* row itself
GaussianBlurRow(channel) ==
  LET n == Len(channel)
      weight == <<1, 4, 6, 4, 1>>
      sum(i) == weight[1] * channel[Reflect101(i - 2, n)] + weight[2] * channel[Reflect101(i - 1, n)]
                + weight[3] * channel[i]
                + weight[4] * channel[Reflect101(i + 1, n)] + weight[5] * channel[Reflect101(i + 2, n)]
  IN [i \in 1..n |-> (sum(i) + 8) \div 16]

HistogramRow(channel) ==
  [v \in Levels |-> Cardinality({i \in DOMAIN channel : channel[i] = v})]

\* detection.py:40-42
ThresholdRow(blurred) ==
  CHOOSE mask \in {[i \in DOMAIN blurred |-> ThresholdBinary(blurred[i], thresh)] :
                     thresh \in {Otsu(hist) : hist \in {HistogramRow(blurred)}}} : TRUE

\* the pixels of the row under the 7x7 kernel centred on pixel i
Under(mask, i) == {mask[j] : j \in {k \in DOMAIN mask : k >= i - 3 /\ k <= i + 3}}

DilateRow(mask) ==
  [i \in DOMAIN mask |-> CHOOSE x \in Under(mask, i) : \A y \in Under(mask, i) : x >= y]

ErodeRow(mask) ==
  [i \in DOMAIN mask |-> CHOOSE x \in Under(mask, i) : \A y \in Under(mask, i) : x <= y]

\* detection.py:48
MorphClose2Row(mask) == ErodeRow(ErodeRow(DilateRow(DilateRow(mask))))

\* detection.py:51
MorphOpen1Row(mask) == DilateRow(ErodeRow(mask))

\* a function that opens the mask before it closes it
StepAfterOpenFirst(trace) ==
  IF trace = << >> THEN "threshold"
  ELSE IF trace = <<"threshold">> THEN "open"
  ELSE IF trace = <<"threshold", "open">> THEN "close"
  ELSE IF trace = <<"threshold", "open", "close">> THEN "return"
  ELSE "none"

\* detection.py:40-54: the statement that follows the steps done so far
StepAfter(trace) ==
  IF trace = << >> THEN "threshold"
  ELSE IF trace = <<"threshold">> THEN "close"
  ELSE IF trace = <<"threshold", "close">> THEN "open"
  ELSE IF trace = <<"threshold", "close", "open">> THEN "return"
  ELSE "none"

(***************************************************************************)
(* The service (src/src/api.py).                                           *)
(***************************************************************************)
\* api.py:28
ApiClasses == <<"Fresh", "Dry">>

\* api.py:106-109: resize to 224x224 and add the batch axis; pixel values are
\* left as they are (0..255): the largest is at least the channel-0 mean
preprocess_crop(crop) ==
  [form |-> "tensor", rank |-> 4, size |-> IMAGE_SIZE, maxval |-> 1000 * crop.mean,
   scale |-> ScaleOf(1000 * crop.mean), feat |-> crop.feat]

\* e^(d/1000), in 1/100000, by its Taylor series
RECURSIVE ExpTerms(_, _, _)
ExpTerms(d, k, term) ==
  IF k > 10 THEN 0
  ELSE term + ExpTerms(d, k + 1, (term * d) \div (1000 * (k + 1)))

Exp(d) == ExpTerms(d, 0, 100000)

\* tf.nn.softmax over two entries given in 1/1000, result in 1/1000
Softmax(p) ==
  LET m == Max2(p)
      e1 == Exp(p[1] - m)
      e2 == Exp(p[2] - m)
  IN <<(1000 * e1) \div (e1 + e2), (1000 * e2) \div (e1 + e2)>>

\* api.py:136  score = tf.nn.softmax(preds[0])
ApiScore(preds) == Softmax(preds)

\* api.py:134-140, one iteration of the loop
ClassifyCrop(m, crop) ==
  LET preds == Forward(m, preprocess_crop(crop))
      score == ApiScore(preds)
  IN [predicted_class |-> ApiClasses[ArgMax(score) + 1], confidence |-> Max2(score)]

\* a loop that carries state from crop to crop: every crop of a request gets
\* the classification of the request's first crop
PredictLoopSticky(m, crops, filename) ==
  [predictions |-> [i \in 1..Len(crops) |-> ClassifyCrop(m, crops[1])],
   tasks |-> << >>,
   inferences |-> Len(crops)]

PredictLoopReversed(m, crops, filename) ==
  [predictions |-> [i \in 1..Len(crops) |-> ClassifyCrop(m, crops[Len(crops) + 1 - i])],
   tasks |-> << >>,
   inferences |-> Len(crops)]

\* api.py:132-141: the predictions, the background tasks added and the number
\* of model.predict calls made, over the crops in order
RECURSIVE PredictLoopFrom(_, _, _, _)
PredictLoopFrom(m, crops, filename, i) ==
  IF i > Len(crops) THEN [predictions |-> << >>, tasks |-> << >>, inferences |-> 0]
  ELSE LET p == ClassifyCrop(m, crops[i])
           rest == PredictLoopFrom(m, crops, filename, i + 1)
       IN [predictions |-> <<p>> \o rest.predictions,
           tasks |-> <<[filename |-> <<filename, i - 1>>, prediction |-> p.predicted_class,
                        confidence |-> p.confidence]>> \o rest.tasks,
           inferences |-> 1 + rest.inferences]

PredictLoop(m, crops, filename) == PredictLoopFrom(m, crops, filename, 1)

Requests == 1..MaxRequests

NoUpload == [empty |-> FALSE, valid |-> FALSE, h |-> 0, w |-> 0, contours |-> <<"none">>]

\* status is the HTTP status of the answer; failedAt is the position of the
\* crop whose classification raised (0 when none did)
NoResponse ==
  [status |-> 0, filename |-> 0, total_dates_found |-> -1, results |-> << >>,
   image |-> NoUpload, inferences |-> 0, failedAt |-> 0]

\* api.py:124-147 has no try/except: an exception raised in the handler leaves
\* it, and the request is answered with status 500 and no results
ErrorResponse(r, image, failedAt) ==
  [status |-> 500, filename |-> r, total_dates_found |-> -1, results |-> << >>,
   image |-> image, inferences |-> failedAt, failedAt |-> failedAt]

Environments == [gemini : BOOLEAN, db : BOOLEAN]

InitApi ==
  /\ env \in Environments
  /\ apiPc = "import"
  /\ apiModel = None
  /\ upload = [r \in Requests |-> NoUpload]
  /\ response = [r \in Requests |-> NoResponse]
  /\ bgTasks = << >>
  /\ logs = {}

ContinueServing(e) == "serving"

\* api.py:54-56: what the import does with a failure e of the model load:
\* sys.exit(1) from the handler, or the exception leaves the import
OnLoadFailure(e) == IF Caught(e, ApiCaught) THEN "exited" ELSE "failed"

\* api.py:24-67, the import of the module
ImportApi ==
  /\ apiPc = "import"
  /\ IF ~env.gemini
     THEN apiPc' = "exited" /\ UNCHANGED apiModel                   \* api.py:32-34
     ELSE IF ~env.db
     THEN apiPc' = "failed" /\ UNCHANGED apiModel                   \* api.py:41, 44-47
     ELSE IF artifact.primary = "ok"
     THEN apiPc' = "serving" /\ apiModel' = KerasLoadModel(artifact) \* api.py:52
     ELSE apiPc' = OnLoadFailure(artifact.primary) /\ UNCHANGED apiModel
  /\ UNCHANGED <<predVars, detVars, clsVars, camVars, env, upload, response, bgTasks, logs>>

\* api.py:125-127: a request arrives and the handler awaits file.read()
ReceiveUpload(r) ==
  /\ apiPc = "serving"
  /\ upload[r] = NoUpload /\ response[r] = NoResponse
  /\ \E image \in Uploads : upload' = [upload EXCEPT ![r] = image]
  /\ UNCHANGED <<predVars, detVars, clsVars, camVars, env, apiPc, apiModel, response, bgTasks, logs>>

\* api.py:128-147: the rest of the handler, which has no suspension point.
\* detect_and_crop may raise (line 128), and so may the classification of a
\* crop (cv2.resize, model.predict or tf.nn.softmax, lines 134-136): failedAt
\* is the first crop for which it does, 0 when it does for none.  The tasks
\* added before an exception belong to a response that is never built, and do
\* not run.
HandleUpload(r) ==
  /\ apiPc = "serving"
  /\ upload[r] # NoUpload
  /\ IF detect_and_crop_raises(upload[r])
     THEN /\ response' = [response EXCEPT ![r] = ErrorResponse(r, upload[r], 0)]
          /\ UNCHANGED bgTasks
     ELSE LET crops == detect_and_crop(upload[r])
              loop == PredictLoop(apiModel, crops, r)
          IN \E failedAt \in 0..Len(crops) :
               IF failedAt > 0
               THEN /\ response' = [response EXCEPT ![r] = ErrorResponse(r, upload[r], failedAt)]
                    /\ UNCHANGED bgTasks
               ELSE /\ response' = [response EXCEPT ![r] =
                                      [status |-> 200, filename |-> r,
                                       total_dates_found |-> Len(crops),
                                       results |-> loop.predictions, image |-> upload[r],
                                       inferences |-> loop.inferences, failedAt |-> 0]]
                    /\ bgTasks' = bgTasks \o loop.tasks
  /\ upload' = [upload EXCEPT ![r] = NoUpload]
  /\ UNCHANGED <<predVars, detVars, clsVars, camVars, env, apiPc, apiModel, logs>>

\* what the insert of api.py:115-119 does: it succeeds, raises an error that
\* line 120 catches (OSError, ValueError), or raises another one
InsertOutcomes == {"inserted", "caught", "escaped"}

\* the tasks of the request whose task raised: they are not run
SameRequest(task, other) == task.filename[1] = other.filename[1]

log_prediction_inline ==
  /\ bgTasks # << >>
  /\ \E outcome \in InsertOutcomes :
       LET task == Head(bgTasks)
           r == task.filename[1]
       IN IF outcome = "inserted"
          THEN /\ logs' = logs \cup {task}
               /\ bgTasks' = Tail(bgTasks)
               /\ UNCHANGED response
          ELSE /\ UNCHANGED logs
               /\ bgTasks' = SelectSeq(Tail(bgTasks), LAMBDA o : ~SameRequest(task, o))
               /\ response' = [response EXCEPT ![r] = ErrorResponse(r, response[r].image, 0)]
  /\ UNCHANGED <<predVars, detVars, clsVars, camVars, env, apiPc, apiModel, upload>>

\* api.py:112-121, run by the background tasks of a response (api.py:141)
\* after the response was built and sent, in the order they were added; a task
\* that raises ends the tasks of its response
log_prediction ==
  /\ bgTasks # << >>
  /\ \E outcome \in InsertOutcomes :
       LET task == Head(bgTasks)
       IN /\ logs' = IF outcome = "inserted" THEN logs \cup {task} ELSE logs
          /\ bgTasks' = IF outcome = "escaped"
                        THEN SelectSeq(Tail(bgTasks), LAMBDA o : ~SameRequest(task, o))
                        ELSE Tail(bgTasks)
  /\ UNCHANGED <<predVars, detVars, clsVars, camVars, env, apiPc, apiModel, upload, response>>

ApiStep ==
  \/ ImportApi
  \/ \E r \in Requests : ReceiveUpload(r)
  \/ \E r \in Requests : HandleUpload(r)
  \/ log_prediction

(***************************************************************************)
(* The detection stage on its own: detect_and_crop and _padded_crop        *)
(* applied to one frame.  A frame is given by its contours (what           *)
(* segmentation finds in it), by its one colour, or by one bounding box.   *)
(***************************************************************************)
MaxContours == 2
BoxImageW == 24
BoxImageH == 12

\* a contour with the channel means b, g, r of its padded crop; mean is the
\* mean of channel 0
Region(area, x, y, w, h, b, g, r, feat) ==
  [area |-> area, x |-> x, y |-> y, w |-> w, h |-> h, mean |-> b, g |-> g, r |-> r,
   feat |-> feat]

Disjoint(c, d) ==
  \/ c.x + c.w <= d.x \/ d.x + d.w <= c.x
  \/ c.y + c.h <= d.y \/ d.y + d.h <= c.y

\* frame sizes (h, w) with contours that can be found in a frame of that size
RegionPools ==
  { [h |-> 200, w |-> 200,
     regions |-> { Region(20400, 60, 20, 140, 160, 120, 130, 140, 1),   \* 51 % of the frame
                   Region(21000, 60, 10, 140, 170, 5, 5, 5, 2),         \* 52.5 %, near black
                   Region(20000, 60, 0, 140, 200, 110, 120, 130, 1),    \* exactly 50 %
                   Region(1400, 0, 140, 60, 50, 90, 100, 110, 2),       \* box of exactly 3000
                   Region(1400, 0, 75, 59, 50, 90, 100, 110, 1),        \* box of 2950
                   Region(3300, 0, 70, 60, 60, 19, 19, 19, 1),          \* means of 19
                   Region(3200, 0, 72, 60, 60, 20, 20, 20, 2),          \* means of 20
                   Region(3100, 0, 0, 60, 60, 0, 0, 200, 1),            \* bright red
                   Region(3000, 0, 5, 60, 60, 50, 0, 0, 2) }],          \* dim blue
    [h |-> 50, w |-> 60,
     regions |-> { Region(1400, 0, 0, 60, 50, 90, 100, 110, 1),         \* box is the frame
                   Region(2000, 5, 5, 50, 40, 90, 100, 110, 2) }],
    [h |-> 50, w |-> 50,
     regions |-> { Region(1500, 5, 5, 40, 40, 90, 100, 110, 1),         \* 60 %, box of 1600
                   Region(1300, 0, 0, 50, 50, 3, 3, 3, 2) }] }

ContourLists(regions) ==
  { cs \in UNION { [1..n -> regions] : n \in 0..MaxContours } :
      \A i, j \in DOMAIN cs : i # j => Disjoint(cs[i], cs[j]) }

NoColour == Colour(0, 0, 0)

ContourFrames ==
  UNION { { [kind |-> "contours", image |-> Image(TRUE, p.h, p.w, cs), colour |-> NoColour] :
              cs \in ContourLists(p.regions) } : p \in RegionPools }

Palette ==
  { Colour(0, 0, 0), Colour(255, 255, 255), Colour(128, 128, 128), Colour(30, 30, 30),
    Colour(0, 0, 255), Colour(0, 255, 0), Colour(255, 0, 0), Colour(40, 120, 60),
    Colour(200, 200, 199), Colour(10, 60, 110) }

FrameSizes == { <<1, 1>>, <<2, 2>>, <<4, 4>>, <<50, 60>>, <<100, 100>>, <<200, 200>> }

UniformFrames ==
  { [kind |-> "uniform", image |-> Image(TRUE, sz[1], sz[2], << >>), colour |-> c] :
      sz \in FrameSizes, c \in Palette }

\* every bounding box inside a frame of BoxImageH x BoxImageW pixels
BoxFrames ==
  { [kind |-> "box",
     image |-> Image(TRUE, BoxImageH, BoxImageW,
                     <<Region(b[3] * b[4], b[1], b[2], b[3], b[4], 100, 100, 100, 1)>>),
     colour |-> NoColour] :
      b \in { q \in (0..BoxImageW - 1) \X (0..BoxImageH - 1) \X (1..BoxImageW) \X (1..BoxImageH) :
                q[1] + q[3] <= BoxImageW /\ q[2] + q[4] <= BoxImageH } }

\* a frame of one row of RowLen pixels, given pixel by pixel
RowFrame == [kind |-> "row", image |-> Image(TRUE, 1, RowLen, << >>), colour |-> NoColour]

Frames == ContourFrames \cup UniformFrames \cup BoxFrames \cup {RowFrame}

NoFrame == [kind |-> "none", image |-> NoUpload, colour |-> NoColour]

NotRun == [scene |-> "none", crops |-> << >>]

\* detection.py:78-114 on a decoded image whose contours are known
Detected(image) == [scene |-> SceneType(image), crops |-> detect_and_crop(image)]

\* detection.py:78-81: the image with the contours of its mask
Segmented(f) ==
  LET mask == _create_foreground_mask(f.image.h, f.image.w, f.colour)
  IN Image(TRUE, f.image.h, f.image.w, findContours(mask, f.image.h, f.image.w, f.colour))

NoMask == << >>

NoMasking == [image |-> << >>, mask |-> NoMask, trace |-> << >>, returned |-> NoMask]

InitDetectIdle == frame = NoFrame /\ detection = NotRun /\ masking = NoMasking

\* detect_and_crop on a frame given by its contours
Detect ==
  /\ frame.kind = "contours" /\ detection = NotRun
  /\ detection' = Detected(frame.image)
  /\ UNCHANGED <<predVars, apiVars, clsVars, camVars, frame, masking>>

\* detect_and_crop on a frame of one colour
DetectUniform ==
  /\ frame.kind = "uniform" /\ detection = NotRun
  /\ detection' = Detected(Segmented(frame))
  /\ UNCHANGED <<predVars, apiVars, clsVars, camVars, frame, masking>>

\* _padded_crop on one bounding box
PadCrop ==
  /\ frame.kind = "box" /\ detection = NotRun
  /\ detection' = [scene |-> "none", crops |-> <<_padded_crop(frame.image, frame.image.contours[1])>>]
  /\ UNCHANGED <<predVars, apiVars, clsVars, camVars, frame, masking>>

\* detection.py:33-42: saturation channel, blur, Otsu threshold
ThresholdMask ==
  /\ frame.kind = "row" /\ StepAfter(masking.trace) = "threshold"
  /\ masking' = [masking EXCEPT
                   !.mask = ThresholdRow(GaussianBlurRow(SaturationRow(masking.image))),
                   !.trace = Append(@, "threshold")]
  /\ UNCHANGED <<predVars, apiVars, clsVars, camVars, frame, detection>>

\* detection.py:48
CloseMask ==
  /\ frame.kind = "row" /\ StepAfter(masking.trace) = "close"
  /\ masking' = [masking EXCEPT !.mask = MorphClose2Row(@), !.trace = Append(@, "close")]
  /\ UNCHANGED <<predVars, apiVars, clsVars, camVars, frame, detection>>

\* detection.py:51
OpenMask ==
  /\ frame.kind = "row" /\ StepAfter(masking.trace) = "open"
  /\ masking' = [masking EXCEPT !.mask = MorphOpen1Row(@), !.trace = Append(@, "open")]
  /\ UNCHANGED <<predVars, apiVars, clsVars, camVars, frame, detection>>

\* detection.py:54
ReturnMask ==
  /\ frame.kind = "row" /\ StepAfter(masking.trace) = "return"
  /\ masking.returned = NoMask
  /\ masking' = [masking EXCEPT !.returned = masking.mask]
  /\ UNCHANGED <<predVars, apiVars, clsVars, camVars, frame, detection>>

NextDetect ==
  Detect \/ DetectUniform \/ PadCrop \/ ThresholdMask \/ CloseMask \/ OpenMask \/ ReturnMask

(***************************************************************************)
(* The two classifiers on their own: FruitPredictor.predict with a loaded  *)
(* model, and one iteration of the loop of upload_and_predict.             *)
(***************************************************************************)
\* the models a load that returned normally leaves (predictor.py:78, 84-86)
LoadedModels ==
  LET a == [exists |-> TRUE, primary |-> "ok", weights |-> "intact"]
  IN {KerasLoadModel(a), load_weights(_build_architecture, a)}

\* the crops detect_and_crop extracts from the uploads
ApiCrops ==
  UNION { {detect_and_crop(u)[i] : i \in DOMAIN detect_and_crop(u)} : u \in Uploads }

NoCrop == [y1 |-> 0, y2 |-> 0, x1 |-> 0, x2 |-> 0, mean |-> 0, feat |-> 0]

Samples ==
  { [entry |-> "predict", model |-> m, input |-> x, crop |-> NoCrop] :
      m \in LoadedModels, x \in PredictInputs }
  \cup
  { [entry |-> "api", model |-> m, input |-> NoTensor, crop |-> c] :
      m \in LoadedModels, c \in ApiCrops }

NoSample == [entry |-> "none", model |-> None, input |-> NoTensor, crop |-> NoCrop]

\* stage counts the applications of the preprocessing; again is the tensor
\* after the second one
NoVerdict ==
  [stage |-> 0, status |-> "none", handed |-> FALSE, tensor |-> NoTensor,
   predictions |-> <<0, 0>>, score |-> <<0, 0>>, label |-> "none", confidence |-> 0,
   again |-> NoTensor]

InitClassifyIdle == sample = NoSample /\ verdict = NoVerdict

\* predictor.py:110-139
Classify ==
  /\ sample.entry = "predict" /\ verdict.stage = 0
  /\ LET out == PredictOutcome(sample.model, sample.input)
     IN verdict' = [stage |-> 1, status |-> out.status, handed |-> out.handed,
                    tensor |-> out.tensor, predictions |-> out.predictions,
                    score |-> PredictorScore(out.predictions), label |-> out.label,
                    confidence |-> out.confidence, again |-> NoTensor]
  /\ UNCHANGED <<predVars, apiVars, detVars, camVars, sample>>

\* api.py:134-140
ClassifyApiCrop ==
  /\ sample.entry = "api" /\ verdict.stage = 0
  /\ LET tensor == preprocess_crop(sample.crop)
         preds == Forward(sample.model, tensor)
         c == ClassifyCrop(sample.model, sample.crop)
     IN verdict' = [stage |-> 1, status |-> "ok", handed |-> TRUE, tensor |-> tensor,
                    predictions |-> preds, score |-> ApiScore(preds),
                    label |-> c.predicted_class, confidence |-> c.confidence,
                    again |-> NoTensor]
  /\ UNCHANGED <<predVars, apiVars, detVars, camVars, sample>>

\* predictor.py:115-125 applied to the array it produced
PreprocessAgain ==
  /\ sample.entry = "predict" /\ verdict.stage = 1 /\ verdict.handed
  /\ verdict' = [verdict EXCEPT !.stage = 2, !.again = PreprocessInput(verdict.tensor)]
  /\ UNCHANGED <<predVars, apiVars, detVars, camVars, sample>>

NextClassify == Classify \/ ClassifyApiCrop \/ PreprocessAgain

(***************************************************************************)
(* The camera client (src/src/inference/iot_simulation.py).                *)
(***************************************************************************)
MaxImages == 3

\* lists of up to MaxImages image files, each listed once (get_images,
\* iot_simulation.py:19-26)
ImageLists ==
  { l \in UNION { [1..n -> 1..MaxImages] : n \in 0..MaxImages } :
      \A i, j \in DOMAIN l : i # j => l[i] # l[j] }

\* iot_simulation.py:41: open(img_path, 'rb') opens the file, raises OSError,
\* or is interrupted by the user
OpenOutcomes == {"opened", "OSError", "KeyboardInterrupt"}

\* iot_simulation.py:43-68: what becomes of the request: an answer of status
\* 200 and a body that is read, an answer of status 200 and a body that is
\* not the JSON expected (ValueError, KeyError), an answer of another
\* status, no connection, no answer within the timeout, an interrupt
PostOutcomes == {"200", "ValueError", "500", "ConnectionError", "Timeout", "KeyboardInterrupt"}

\* iot_simulation.py:75: sleep(DELAY) returns or is interrupted
SleepOutcomes == {"slept", "KeyboardInterrupt"}

\* a loop that gives up when the service cannot be reached
AfterOutcomeGivingUp(outcome) ==
  IF outcome = "KeyboardInterrupt" THEN "stopped"
  ELSE IF outcome = "ConnectionError" THEN "done"
  ELSE "sleep"

\* iot_simulation.py:68-79: where the loop goes after an outcome.  A status
\* other than 200 is printed (line 68); ConnectionError and every other
\* Exception are caught and printed inside the loop (lines 70-73), and the
\* loop goes on to sleep(DELAY); KeyboardInterrupt is no Exception and is
\* caught outside the loop (lines 77-79), where sys.exit(0) ends the run
AfterOutcome(outcome) ==
  IF outcome = "KeyboardInterrupt" THEN "stopped" ELSE "sleep"

Handling(image, outcome, wasPosted) ==
  [image |-> image, outcome |-> outcome, posted |-> wasPosted]

InitCameraIdle ==
  /\ image_list = << >> /\ camPc = "idle" /\ camIdx = 0
  /\ posted = << >> /\ handled = << >>

\* simulate_camera is called with a list of images
InitCameraStart ==
  /\ image_list \in ImageLists /\ camPc = "start" /\ camIdx = 0
  /\ posted = << >> /\ handled = << >>

\* iot_simulation.py:32-36: the banner, then the first image if there is one
StartCamera ==
  /\ camPc = "start"
  /\ camIdx' = 1
  /\ camPc' = IF image_list = << >> THEN "done" ELSE "open"
  /\ UNCHANGED <<predVars, apiVars, detVars, clsVars, image_list, posted, handled>>

\* iot_simulation.py:37-41
OpenImage ==
  /\ camPc = "open"
  /\ \E outcome \in OpenOutcomes :
       IF outcome = "opened"
       THEN camPc' = "post" /\ UNCHANGED handled
       ELSE /\ camPc' = AfterOutcome(outcome)
            /\ handled' = Append(handled, Handling(image_list[camIdx], outcome, FALSE))
  /\ UNCHANGED <<predVars, apiVars, detVars, clsVars, image_list, camIdx, posted>>

\* iot_simulation.py:43-73: the request and what is done with its answer
PostImage ==
  /\ camPc = "post"
  /\ \E outcome \in PostOutcomes :
       /\ camPc' = AfterOutcome(outcome)
       /\ handled' = Append(handled, Handling(image_list[camIdx], outcome, TRUE))
  /\ posted' = Append(posted, image_list[camIdx])
  /\ UNCHANGED <<predVars, apiVars, detVars, clsVars, image_list, camIdx>>

\* iot_simulation.py:75, then the next image of the list or the end of the loop
Sleep ==
  /\ camPc = "sleep"
  /\ \E outcome \in SleepOutcomes :
       IF outcome = "slept"
       THEN /\ camIdx' = camIdx + 1
            /\ camPc' = IF camIdx + 1 > Len(image_list) THEN "done" ELSE "open"
       ELSE /\ camPc' = AfterOutcome(outcome)
            /\ UNCHANGED camIdx
  /\ UNCHANGED <<predVars, apiVars, detVars, clsVars, image_list, posted, handled>>

NextCamera == StartCamera \/ OpenImage \/ PostImage \/ Sleep

InitProbeIdle == probe = NoTensor /\ probed = {}

Init ==
  InitPredictor /\ InitApi /\ InitDetectIdle /\ InitClassifyIdle /\ InitProbeIdle /\ InitCameraIdle

\* the images of which one is classified several times
Probes ==
  {x \in PredictInputs : x.rank = 3 /\ x.size = IMAGE_SIZE /\ x.maxval = 255000}

InitTwice ==
  /\ InitPredictor /\ InitApi /\ InitDetectIdle /\ InitClassifyIdle
  /\ env = [gemini |-> TRUE, db |-> TRUE]
  /\ probe \in Probes
  /\ probed = {}
  /\ InitCameraIdle

InitClassify ==
  /\ InitPredictor /\ InitApi /\ InitDetectIdle
  /\ artifact = [exists |-> TRUE, primary |-> "ok", weights |-> "intact"]
  /\ env = [gemini |-> TRUE, db |-> TRUE]
  /\ sample \in Samples
  /\ verdict = NoVerdict
  /\ InitProbeIdle /\ InitCameraIdle

InitCamera ==
  /\ InitPredictor /\ InitApi /\ InitDetectIdle /\ InitClassifyIdle /\ InitProbeIdle
  /\ artifact = [exists |-> TRUE, primary |-> "ok", weights |-> "intact"]
  /\ env = [gemini |-> TRUE, db |-> TRUE]
  /\ InitCameraStart

InitDetect ==
  /\ InitPredictor /\ InitApi
  /\ artifact = [exists |-> TRUE, primary |-> "ok", weights |-> "intact"]
  /\ env = [gemini |-> TRUE, db |-> TRUE]
  /\ frame \in Frames
  /\ detection = NotRun
  /\ masking \in IF frame.kind = "row"
                 THEN {[NoMasking EXCEPT !.image = pixels] : pixels \in Rows}
                 ELSE {NoMasking}
  /\ InitClassifyIdle /\ InitProbeIdle /\ InitCameraIdle

\* the predictor's callers are threads: any caller may take the next step
Next == \E t \in Callers : Step(t)

\* one call at a time: a call starts only when no other call is in progress
CallPredictAlone(t) == OthersIdle(t) /\ CallPredict(t)

CallLoadModelAlone(t) == OthersIdle(t) /\ CallLoadModel(t)

NextSeq ==
  \E t \in Callers :
    \/ CallPredictAlone(t)
    \/ CallLoadModelAlone(t)
    \/ CheckModel(t)
    \/ ExistsCheck(t)
    \/ PrimaryLoad(t)
    \/ Build(t)
    \/ DummyPass(t)
    \/ LoadWeights(t)
    \/ Recheck(t)
    \/ Infer(t)

NextApi == ApiStep

\* FruitPredictor is a library class: the service's environment plays no part
InitLibrary == Init /\ env = [gemini |-> TRUE, db |-> TRUE]

\* FruitPredictor used from several threads
Spec == InitLibrary /\ [][Next]_vars

\* FruitPredictor used by one caller at a time
SpecSeq == InitLibrary /\ [][NextSeq]_vars

\* FruitPredictor used by one caller at a time, one image given repeatedly
SpecTwice == InitTwice /\ [][NextSeq]_vars

\* the service process
SpecApi == Init /\ [][NextApi]_vars

\* the detection stage applied to one frame
SpecDetect == InitDetect /\ [][NextDetect]_vars

\* a classifier applied to one input
SpecClassify == InitClassify /\ [][NextClassify]_vars

\* one run of simulate_camera; the script is one thread that runs until it
\* returns or exits: the request has a timeout and the sleep is finite, so
\* the step it is at is taken
SpecCamera == InitCamera /\ [][NextCamera]_vars /\ WF_vars(NextCamera)

(***************************************************************************)
(* Claims about FruitPredictor.                                            *)
(***************************************************************************)
Ready == {"Loaded", "FallbackLoaded"}

InLoadModel(t) == pc[t] \in {"exists", "primary", "build", "dummy", "weights"}

Served == result.status = "ok" /\ result.call = "predict"

\* C1: no predict call returns a prediction computed by a model that is
\* unloaded or only partially loaded (architecture rebuilt, artifact weights
\* not loaded).
C1_NeverServesUnreadyModel == Served => LoadState(result.model) \in Ready

\* C2: of the callers that invoke predict concurrently, at most one is inside
\* load_model at any time (the load is never started twice).
C2_AtMostOneLoader ==
  Cardinality({t \in Callers : call[t] = "predict" /\ InLoadModel(t)}) <= 1

\* C3: between calls the load state only ever moves Unloaded -> Loaded or
\* Unloaded -> FallbackLoaded; once Loaded or FallbackLoaded it never changes.
C3_LoadStateOnlyAdvances ==
  [][settled' # settled => (settled = "Unloaded" /\ settled' \in Ready)]_vars

\* C4: over predict calls alone, no load runs once one has succeeded, and every
\* predict call that returns a result is preceded by exactly one successful
\* load.
C4_ExactlyOneLoad ==
  ~directLoad =>
    /\ \A t \in Callers : InLoadModel(t) => succLoads = 0
    /\ Served => succLoads = 1

\* C6: with the artifact absent, load_model raises FileNotFoundError without
\* attempting the primary load or the reconstruction, and the load state
\* stays Unloaded.
C6_MissingArtifact ==
  ~artifact.exists =>
    /\ model = None
    /\ settled = "Unloaded"
    /\ succLoads = 0
    /\ \A t \in Callers : pc[t] \in {"idle", "check", "exists"}
    /\ result.status # "none" =>
         (result.status = "raised" /\ result.exc = "FileNotFoundError" /\ result.steps = << >>)

C6_Witness ==
  /\ ~artifact.exists
  /\ result.status = "raised" /\ result.call = "load_model"
  /\ calls >= 2

\* C7: with an artifact whose descriptor cannot be loaded (the primary load
\* raises an error the loader handles) but whose weights are intact, every
\* load_model returns normally, having rebuilt the architecture, run one
\* dummy pass and loaded the weights, in that order; the model it leaves is
\* FallbackLoaded and gives, on every tensor, the output of the normally
\* loaded model.
DescriptorCorrupted(a) == a.exists /\ Caught(a.primary, PredictorCaught)

Tensors == {PreprocessInput(x) : x \in {y \in PredictInputs : y.rank \in {3, 4}}}

FormatVersionErrors == PredictorCaught

FallbackEntered(m) == LoadState(m) \in {"Partial", "FallbackLoaded"}

\* C5: a loader enters the fallback path (rebuild, dummy pass, load weights)
\* only when its primary load failed with a format/version error, and every
\* such failure of a primary load enters it.
C5_FallbackIffFormatError ==
  /\ \A t \in Callers :
       pc[t] \in {"build", "dummy", "weights"} => Caught(artifact.primary, FormatVersionErrors)
  /\ FallbackEntered(model) => Caught(artifact.primary, FormatVersionErrors)
  /\ ~(/\ result.status = "raised" /\ result.steps = << >>
        /\ artifact.exists /\ result.exc = artifact.primary
        /\ Caught(result.exc, FormatVersionErrors))
  /\ FallbackEntered(apiModel) => Caught(artifact.primary, FormatVersionErrors)
  /\ (/\ apiPc # "import" /\ env.gemini /\ env.db
      /\ artifact.exists /\ Caught(artifact.primary, FormatVersionErrors))
       => FallbackEntered(apiModel)

Handled(r) == response[r] # NoResponse

Answered200(r) == response[r].status = 200

\* C8: the service handles a request only in a process whose model load
\* completed; after any failure of the load the process has ended and no
\* request is ever received or answered.
C8_NoServingWithoutModel ==
  /\ apiPc = "serving" => (artifact.primary = "ok" /\ LoadState(apiModel) = "Loaded")
  /\ \A r \in Requests :
       (upload[r] # NoUpload \/ Handled(r)) => LoadState(apiModel) = "Loaded"
  /\ artifact.primary # "ok" =>
       /\ apiPc \in {"import", "exited", "failed"}
       /\ \A r \in Requests : upload[r] = NoUpload /\ ~Handled(r)
       /\ bgTasks = << >> /\ logs = {}

C8_Witness ==
  /\ env.gemini /\ env.db
  /\ artifact.exists
  /\ ~Caught(artifact.primary, ApiCaught) /\ artifact.primary # "ok"
  /\ apiPc = "failed"

EmptyOrUndecodable(image) == ~image.valid \/ image.contours = << >>

\* C9: a request whose bytes do not decode, or whose mask has no contours,
\* is answered with an empty result list and a total of 0, and the model is
\* not invoked for it.
C9_ShortCircuit ==
  \A r \in Requests :
    (Handled(r) /\ EmptyOrUndecodable(response[r].image)) =>
      /\ Answered200(r)
      /\ response[r].results = << >>
      /\ response[r].total_dates_found = 0
      /\ response[r].inferences = 0

\* C10: every response has exactly one result per extracted crop, result i
\* is the classification of crop i, the total equals the number of crops,
\* and every crop was classified before the response was built.
C10_ResponseAligned ==
  \A r \in Requests :
    Answered200(r) =>
      LET crops == detect_and_crop(response[r].image)
      IN /\ response[r].total_dates_found = Len(crops)
         /\ Len(response[r].results) = Len(crops)
         /\ response[r].inferences = Len(crops)
         /\ \A i \in 1..Len(crops) : response[r].results[i] = ClassifyCrop(apiModel, crops[i])

C10_Witness ==
  \E r \in Requests :
    /\ Answered200(r)
    /\ response[r].total_dates_found >= 2
    /\ response[r].results[1] # response[r].results[2]

\* C11: when the classification of one crop of a request fails, the request
\* is still answered normally, with the classification of each of its other
\* crops.
C11_FailureIsolated ==
  \A r \in Requests :
    (Handled(r) /\ response[r].failedAt > 0) =>
      LET crops == detect_and_crop(response[r].image)
      IN /\ Answered200(r)
         /\ \A i \in 1..Len(crops) :
              i # response[r].failedAt =>
                \E j \in 1..Len(response[r].results) :
                  response[r].results[j] = ClassifyCrop(apiModel, crops[i])

TaskOfBuiltResponse(task) ==
  LET r == task.filename[1]
  IN /\ Answered200(r)
     /\ task.filename[2] + 1 \in 1..Len(response[r].results)
     /\ task.prediction = response[r].results[task.filename[2] + 1].predicted_class

LogStep == logs' # logs \/ Len(bgTasks') < Len(bgTasks)

\* C12: a log_prediction task exists, and so runs, only once the response of
\* its request has been built, and a step of log_prediction, whether its
\* write succeeds or fails, leaves every response as it was.
C12_LogsOffReturnPath ==
  /\ [](/\ \A i \in 1..Len(bgTasks) : TaskOfBuiltResponse(bgTasks[i])
        /\ \A row \in logs : TaskOfBuiltResponse(row))
  /\ [][LogStep => response' = response]_vars

\* a request answered with results of which every log write has run and
\* none has left a row
C12_Witness ==
  \E r \in Requests :
    /\ Answered200(r)
    /\ response[r].total_dates_found >= 2
    /\ \A i \in 1..Len(bgTasks) : bgTasks[i].filename[1] # r
    /\ \A row \in logs : row.filename[1] # r

\* C13: decoding a buffer that is no encoded image, the buffer of no bytes
\* included, gives the failure value None and does not raise, and
\* detect_and_crop returns the empty list for it.
C13_DecodeNeverRaises ==
  \A r \in Requests :
    (upload[r] # NoUpload /\ ~upload[r].valid) =>
      /\ _decode_image(upload[r]) = "None"
      /\ ~detect_and_crop_raises(upload[r])
      /\ detect_and_crop(upload[r]) = << >>

(***************************************************************************)
(* Claims about the detection stage.                                       *)
(***************************************************************************)
Ran == detection # NotRun

ContoursOf(f) == f.image.contours

MaxArea(cs) ==
  CHOOSE a \in {cs[i].area : i \in DOMAIN cs} : \A i \in DOMAIN cs : cs[i].area <= a

\* the scene of a frame as the specification defines it: coverage is the
\* largest contour area over height x width, compared with one half
ExpectedScene(image) ==
  IF image.contours = << >> THEN "Empty"
  ELSE IF 2 * MaxArea(image.contours) > image.h * image.w THEN "SingleObject"
  ELSE "MultiObject"

\* the bounding box of c, widened by 10 pixels on each side and cut at the
\* borders of the frame
ClippedBox(image, c) ==
  [x1 |-> IF c.x >= 10 THEN c.x - 10 ELSE 0,
   x2 |-> IF c.x + c.w + 10 <= image.w THEN c.x + c.w + 10 ELSE image.w,
   y1 |-> IF c.y >= 10 THEN c.y - 10 ELSE 0,
   y2 |-> IF c.y + c.h + 10 <= image.h THEN c.y + c.h + 10 ELSE image.h]

Rect(crop) == [x1 |-> crop.x1, x2 |-> crop.x2, y1 |-> crop.y1, y2 |-> crop.y2]

CropArea(crop) == (crop.x2 - crop.x1) * (crop.y2 - crop.y1)

\* the positions in the result of the crops taken from contour c
CropsOf(image, c) ==
  {k \in DOMAIN detection.crops :
     Rect(detection.crops[k]) = ClippedBox(image, c) /\ detection.crops[k].feat = c.feat}

\* C14: the scene is Empty without contours, SingleObject when the largest
\* contour covers strictly more than half of the frame, and MultiObject when
\* it covers half of it or less; the other contours play no part.
C14_SceneByLargestContour ==
  (frame.kind = "contours" /\ Ran) =>
    /\ detection.scene = ExpectedScene(frame.image)
    /\ detection.scene = "Empty" => detection.crops = << >>
    /\ detection.scene = "SingleObject" => Len(detection.crops) = 1

C14_Witness ==
  /\ frame.kind = "contours" /\ Ran
  /\ Len(ContoursOf(frame)) >= 2
  /\ 2 * MaxArea(ContoursOf(frame)) = frame.image.h * frame.image.w
  /\ detection.scene = "MultiObject"

\* C15: in a SingleObject scene the result is exactly one crop, the padded
\* and clipped bounding box of the largest contour, whatever the other
\* contours, the box area and the darkness of the crop.
C15_SingleObjectOneCrop ==
  (frame.kind = "contours" /\ Ran /\ ExpectedScene(frame.image) = "SingleObject") =>
    /\ Len(detection.crops) = 1
    /\ \E i \in DOMAIN ContoursOf(frame) :
         /\ ContoursOf(frame)[i].area = MaxArea(ContoursOf(frame))
         /\ CropsOf(frame.image, ContoursOf(frame)[i]) = {1}

C15_Witness ==
  /\ frame.kind = "contours" /\ Ran
  /\ Len(ContoursOf(frame)) >= 2
  /\ ContoursOf(frame)[1].area < MaxArea(ContoursOf(frame))
  /\ Len(detection.crops) = 1
  /\ detection.crops[1].mean < DARK_CROP_THRESHOLD

C17_CropAreaExceedsThreshold ==
  (frame.kind = "contours" /\ Ran /\ detection.scene = "MultiObject") =>
    \A k \in DOMAIN detection.crops : CropArea(detection.crops[k]) > MIN_OBJECT_AREA

\* C17, amended: every crop of a MultiObject scene has an area, width x
\* height, of at least the minimum-area threshold.
C17_CropAreaAtLeastThreshold ==
  (frame.kind = "contours" /\ Ran /\ detection.scene = "MultiObject") =>
    \A k \in DOMAIN detection.crops : CropArea(detection.crops[k]) >= MIN_OBJECT_AREA

C17_Witness ==
  /\ frame.kind = "contours" /\ Ran
  /\ detection.scene = "MultiObject"
  /\ \E k \in DOMAIN detection.crops : CropArea(detection.crops[k]) = MIN_OBJECT_AREA

\* three times the mean pixel intensity of the padded crop of c
IntensitySum(c) == c.mean + c.g + c.r

\* C18: in a MultiObject scene a contour whose box area qualifies gives no
\* crop exactly when the mean pixel intensity of its crop is below 20.
C18_DarknessByMeanIntensity ==
  (frame.kind = "contours" /\ Ran /\ detection.scene = "MultiObject") =>
    \A i \in DOMAIN ContoursOf(frame) :
      LET c == ContoursOf(frame)[i]
      IN c.w * c.h >= 3000 =>
           (CropsOf(frame.image, c) = {} <=> IntensitySum(c) < 3 * 20)

\* C19: the padded rectangle of a bounding box inside the frame lies inside
\* the frame, is not empty, contains the box, and on each side reaches 10
\* pixels beyond the box or, where that would leave the frame, the border.
C19_PaddedCropInsideFrame ==
  (frame.kind = "box" /\ Ran) =>
    LET b == ContoursOf(frame)[1]
        c == detection.crops[1]
        width == frame.image.w
        height == frame.image.h
    IN /\ 0 <= c.x1 /\ c.x1 < c.x2 /\ c.x2 <= width
       /\ 0 <= c.y1 /\ c.y1 < c.y2 /\ c.y2 <= height
       /\ c.x1 <= b.x /\ b.x + b.w <= c.x2
       /\ c.y1 <= b.y /\ b.y + b.h <= c.y2
       /\ c.x1 = b.x - 10 \/ (c.x1 = 0 /\ b.x < 10)
       /\ c.y1 = b.y - 10 \/ (c.y1 = 0 /\ b.y < 10)
       /\ c.x2 = b.x + b.w + 10 \/ (c.x2 = width /\ b.x + b.w + 10 > width)
       /\ c.y2 = b.y + b.h + 10 \/ (c.y2 = height /\ b.y + b.h + 10 > height)

C19_Witness ==
  /\ frame.kind = "box" /\ Ran
  /\ detection.crops[1].x1 = ContoursOf(frame)[1].x - 10
  /\ detection.crops[1].x2 = ContoursOf(frame)[1].x + ContoursOf(frame)[1].w + 10
  /\ detection.crops[1].y1 = 0 /\ ContoursOf(frame)[1].y = 3
  /\ detection.crops[1].y2 = frame.image.h

\* C20: a frame whose pixels all have one colour, of whatever saturation,
\* gives no crop.
C20_UniformFrameHasNoObjects ==
  (frame.kind = "uniform" /\ Ran) => detection.crops = << >>

(***************************************************************************)
(* Claims about the classifiers.                                           *)
(***************************************************************************)
Classified == verdict.stage > 0 /\ verdict.status = "ok"

ClassesOf(entry) == IF entry = "api" THEN ApiClasses ELSE PredictorClasses

IsDistribution(p) == p[1] >= 0 /\ p[2] >= 0 /\ p[1] + p[2] = 1000

\* C21: every classification returned has a confidence between 0 and 100 %,
\* a label that is one of the two classes of its entry point and the class at
\* the argmax of the model's probability vector, and a confidence of 100
\* times the largest probability.
C21_LabelAndConfidence ==
  Classified =>
    /\ 0 <= verdict.confidence /\ verdict.confidence <= 1000
    /\ Len(ClassesOf(sample.entry)) = 2
    /\ verdict.label = ClassesOf(sample.entry)[ArgMax(verdict.predictions) + 1]
    /\ verdict.confidence = Max2(verdict.predictions)

\* C22: the vector of which argmax and confidence are taken is the model's
\* output itself when that output is a probability distribution, and its
\* softmax when it is not.
C22_SoftmaxOnlyWhenUnnormalized ==
  Classified =>
    verdict.score = IF IsDistribution(verdict.predictions)
                    THEN verdict.predictions
                    ELSE Softmax(verdict.predictions)

\* C23: predict takes an array of 3 or of 4 axes as far as the inference
\* call, and rejects an array of any other number of axes with ValueError
\* without calling the model.
C23_RankThreeOrFour ==
  (sample.entry = "predict" /\ sample.input.form = "array" /\ verdict.stage > 0) =>
    IF sample.input.rank \in {3, 4}
    THEN verdict.handed /\ verdict.tensor.rank = 4
    ELSE verdict.status = "raised" /\ ~verdict.handed

C23_Witness ==
  /\ sample.entry = "predict" /\ sample.input.form = "array"
  /\ sample.input.rank = 5
  /\ verdict.status = "raised" /\ ~verdict.handed

\* C26: every tensor handed to the model has 224 x 224 pixels and a leading
\* batch axis, whichever form the input had.
C26_TensorInModelFormat ==
  verdict.handed => (verdict.tensor.size = 224 /\ verdict.tensor.rank = 4)

\* C27: the preprocessing divides by 255 only when the largest value exceeds
\* 1.0, a second application changes nothing, and the values of an 8-bit
\* input lie in [0,1] afterwards.
C27_NormalizationIdempotent ==
  verdict.handed =>
    /\ sample.entry = "predict" =>
         (verdict.tensor.maxval # sample.input.maxval => sample.input.maxval > 1000)
    /\ verdict.stage = 2 => verdict.again = verdict.tensor
    /\ (sample.entry = "api" \/ sample.input.maxval \in Maxima8Bit) =>
         verdict.tensor.maxval <= 1000

Pixels(crop) ==
  [h |-> crop.y2 - crop.y1, w |-> crop.x2 - crop.x1, mean |-> crop.mean, feat |-> crop.feat]

\* C25: each crop is classified independently: in one request and across
\* requests, crops of the same pixels get the same label and confidence
\* whatever other crops come before, after or with them, and no
\* classification changes the shared model.
C25_CropsIndependent ==
  /\ [](\A r1, r2 \in Requests :
         (Answered200(r1) /\ Answered200(r2)) =>
           LET crops1 == detect_and_crop(response[r1].image)
               crops2 == detect_and_crop(response[r2].image)
           IN \A i \in 1..Len(crops1), j \in 1..Len(crops2) :
                Pixels(crops1[i]) = Pixels(crops2[j]) =>
                  response[r1].results[i] = response[r2].results[j])
  /\ [][apiPc = "serving" => apiModel' = apiModel]_vars

C25_Witness ==
  \E r1, r2 \in Requests :
    /\ Answered200(r1) /\ Answered200(r2)
    /\ LET crops1 == detect_and_crop(response[r1].image)
           crops2 == detect_and_crop(response[r2].image)
       IN /\ Len(crops1) >= 2 /\ Len(crops2) >= 2
          /\ Pixels(crops1[1]) = Pixels(crops2[2])
          /\ Pixels(crops1[1]) # Pixels(crops2[1])
          /\ response[r1].results[1] # response[r1].results[2]

\* crops are the crops of the contours of cs that pass both filters, in the
\* order of cs
InContourOrder(crops, image, cs) ==
  LET kept == SelectSeq(cs, LAMBDA c : c.w * c.h >= 3000 /\ c.mean >= 20)
  IN /\ Len(crops) = Len(kept)
     /\ \A k \in DOMAIN kept :
          /\ Rect(crops[k]) = ClippedBox(image, kept[k])
          /\ crops[k].feat = kept[k].feat

\* C28: in a MultiObject scene the crops are the contours that pass both
\* filters, in the order of the contours; the same contours in another order
\* give the same crops, in that order.
C28_CropsInContourOrder ==
  (frame.kind = "contours" /\ Ran /\ detection.scene = "MultiObject") =>
    LET cs == ContoursOf(frame)
    IN /\ InContourOrder(detection.crops, frame.image, cs)
       /\ \A p \in Permutations(DOMAIN cs) :
            LET permuted == [i \in DOMAIN cs |-> cs[p[i]]]
                again == detect_and_crop(Image(TRUE, frame.image.h, frame.image.w, permuted))
            IN /\ InContourOrder(again, frame.image, permuted)
               /\ {again[k] : k \in DOMAIN again} =
                    {detection.crops[k] : k \in DOMAIN detection.crops}

C28_Witness ==
  /\ frame.kind = "contours" /\ Ran
  /\ detection.scene = "MultiObject"
  /\ Len(ContoursOf(frame)) >= 2
  /\ Len(detection.crops) = 2
  /\ detection.crops[1] # detection.crops[2]

\* C29: the mask is made by thresholding, then closing, then opening, in
\* that order and each once; what is returned is the output of the opening,
\* of the dimensions of the image.
C29_ThresholdCloseOpen ==
  frame.kind = "row" =>
    /\ \E n \in 0..3 : masking.trace = SubSeq(<<"threshold", "close", "open">>, 1, n)
    /\ masking.returned # NoMask =>
         LET thresholded == ThresholdRow(GaussianBlurRow(SaturationRow(masking.image)))
         IN /\ masking.trace = <<"threshold", "close", "open">>
            /\ masking.returned = MorphOpen1Row(MorphClose2Row(thresholded))
            /\ Len(masking.returned) = frame.image.w * frame.image.h

\* a mask was returned that opening before closing would not have given
C29_Witness ==
  /\ frame.kind = "row"
  /\ masking.returned # NoMask
  /\ LET thresholded == ThresholdRow(GaussianBlurRow(SaturationRow(masking.image)))
     IN /\ masking.returned # MorphClose2Row(MorphOpen1Row(thresholded))
        /\ \E i, j \in DOMAIN thresholded : thresholded[i] # thresholded[j]

(***************************************************************************)
(* Claims about the camera client.                                         *)
(***************************************************************************)
CameraEnded == camPc \in {"done", "stopped"}

ImagesOf(handlings) == [k \in DOMAIN handlings |-> handlings[k].image]

Interrupted == \E k \in DOMAIN handled : handled[k].outcome = "KeyboardInterrupt"

\* C30, as stated: every image of the list is sent exactly once, in list
\* order, whatever fails while an image is handled, and the loop ends after
\* the last image.
C30_EachImageSentOnce ==
  /\ [](camPc = "done" => posted = image_list)
  /\ <>CameraEnded

\* C30, amended: every image of the list is handled exactly once, in list
\* order, and sent at most once: exactly once when its file opens.  No
\* failure of one image stops the loop or skips an image: the loop ends
\* after the last image was handled, or when the user interrupts it.
C30_EachImageHandledOnce ==
  /\ [](camPc # "idle" =>
         /\ Len(handled) <= Len(image_list)
         /\ ImagesOf(handled) = SubSeq(image_list, 1, Len(handled))
         /\ posted = ImagesOf(SelectSeq(handled, LAMBDA x : x.posted))
         /\ \A k \in DOMAIN handled :
              /\ handled[k].outcome = "OSError" => ~handled[k].posted
              /\ handled[k].outcome \in PostOutcomes \ {"KeyboardInterrupt"} => handled[k].posted
         /\ camPc = "done" => (Len(handled) = Len(image_list) /\ ~Interrupted)
         /\ (CameraEnded /\ Len(handled) < Len(image_list)) => camPc = "stopped")
  /\ <>CameraEnded

C30_Witness ==
  /\ camPc = "done"
  /\ Len(image_list) >= 3
  /\ handled[1].outcome = "ConnectionError"
  /\ handled[2].outcome = "OSError"
  /\ handled[3].outcome = "200"
  /\ Len(posted) = 2

====
